---- MODULE Spec2Model ----
(***************************************************************************)
(* Model of the env_perm crate (src/src/lib.rs): check_or_set, set and     *)
(* append, in both builds (target_family = "unix": export lines appended   *)
(* to a profile file found by find_profile; target_family = "windows":     *)
(* the setx command).  Text is modelled as sequences of one-character      *)
(* strings so that what is written to a file can be compared character by  *)
(* character.                                                              *)
(***************************************************************************)
EXTENDS Integers, Sequences, FiniteSets, TLC

VARIABLES os, home, fs, env, setx_calls, hist

vars == <<os, home, fs, env, setx_calls, hist>>

(***************************** bounds **************************************)
\* Number of library calls made by the calling process in one behaviour.
MaxCalls == 2

(***************************** text ****************************************)
FOO == <<"F", "O", "O">>
PATH == <<"P", "A", "T", "H">>
Names == {FOO, PATH}

\* A value passed as a `fmt::Display` argument: an integer or a string.
IntV(n) == [t |-> "int", i |-> n, s |-> <<>>]
StrV(x) == [t |-> "str", i |-> 0, s |-> x]

RECURSIVE Concat(_)
Concat(frags) ==
    IF frags = <<>> THEN <<>> ELSE Head(frags) \o Concat(Tail(frags))

DigitChars == <<"0", "1", "2", "3", "4", "5", "6", "7", "8", "9">>

RECURSIVE Digits(_)
Digits(n) ==
    IF n < 10 THEN <<DigitChars[n + 1]>>
    ELSE Digits(n \div 10) \o <<DigitChars[(n % 10) + 1]>>

\* `{}` formatting (fmt::Display) of an argument: decimal digits for an
\* integer, the characters themselves for a string.
Display(v) ==
    IF v.t = "int"
    THEN (IF v.i < 0 THEN <<"-">> \o Digits(0 - v.i) ELSE Digits(v.i))
    ELSE v.s

\* `{:?}` formatting of an OsString that is not valid unicode.
Debug(x) == <<"\"">> \o x \o <<"\"">>

(***************************** io::Result<()> *****************************)
Ok == [ok |-> TRUE, kind |-> "", msg |-> <<>>]
Err(kind, msg) == [ok |-> FALSE, kind |-> kind, msg |-> msg]

(***************************** process environment ************************)
Absent == [kind |-> "absent", text |-> <<>>]
Unicode(x) == [kind |-> "unicode", text |-> x]
NotUnicode(x) == [kind |-> "notunicode", text |-> x]

\* std::env::var: Ok(value) only for a variable that is present and whose
\* value is valid unicode; Err(NotPresent) or Err(NotUnicode(bytes)) otherwise.
env_var(e, name) ==
    CASE e[name].kind = "unicode" ->
            [ok |-> TRUE, val |-> e[name].text, err |-> ""]
      [] e[name].kind = "notunicode" ->
            [ok |-> FALSE, val |-> e[name].text, err |-> "NotUnicode"]
      [] OTHER ->
            [ok |-> FALSE, val |-> <<>>, err |-> "NotPresent"]

(***************************** profile files (unix) ************************)
BashProfile == ".bash_profile"
BashLogin == ".bash_login"
Profile == ".profile"
Files == {BashProfile, BashLogin, Profile}

\* A path under the home directory is absent, a file that can be opened for
\* append ("file"), or something that exists but whose open fails ("locked":
\* no write permission, a directory, ...).  `home` is "none" when
\* dirs::home_dir() is None, "rw" for a directory in which files can be
\* created and "ro" for one in which they cannot.
NoFile == [st |-> "absent", data |-> <<>>]

\* OpenOptions::open with append(true) and create(create).
open(f, create, s) ==
    CASE s.fs[f].st = "file" -> [ok |-> TRUE, file |-> f, fs |-> s.fs]
      [] s.fs[f].st = "absent" /\ create /\ s.home = "rw" ->
            [ok |-> TRUE, file |-> f,
             fs |-> [s.fs EXCEPT ![f] = [st |-> "file", data |-> <<>>]]]
      [] OTHER -> [ok |-> FALSE, file |-> f, fs |-> s.fs]

\* Result::or_else on the result of an open: the next open is attempted
\* on any error of the previous one.
or_else(r, f, create, s) == IF r.ok THEN r ELSE open(f, create, s)

\* Variants of find_profile with a plausible slip: .profile tried before
\* .bash_login; the file created before the chain is tried; no creating open.
find_profile_reordered(s) ==
    or_else(or_else(or_else(open(BashProfile, FALSE, s),
                            Profile, FALSE, s),
                    BashLogin, FALSE, s),
            BashProfile, TRUE, s)

find_profile_create_first(s) ==
    or_else(or_else(open(BashProfile, TRUE, s),
                    BashLogin, FALSE, s),
            Profile, FALSE, s)

find_profile_no_create(s) ==
    or_else(or_else(open(BashProfile, FALSE, s),
                    BashLogin, FALSE, s),
            Profile, FALSE, s)

find_profile(s) ==
    or_else(or_else(or_else(open(BashProfile, FALSE, s),
                            BashLogin, FALSE, s),
                    Profile, FALSE, s),
            BashProfile, TRUE, s)

get_profile(s) ==
    IF s.home = "none"
    THEN [ok |-> FALSE, kind |-> "NoHome", file |-> BashProfile, fs |-> s.fs]
    ELSE LET p == find_profile(s)
         IN  [ok |-> p.ok, kind |-> "Open", file |-> p.file, fs |-> p.fs]

\* writeln!(profile, ...): io::Write::write_fmt hands the pieces of the
\* formatted text to write_all, which calls write(2) on the unbuffered file
\* until every byte is taken or a call fails.  The OS may refuse after any
\* number of bytes, between two pieces or inside one (a full disk, a file
\* size limit, an I/O error), so what reaches the file before an error is a
\* proper prefix of the text; the call succeeds exactly when every byte is
\* taken.  w.fail says whether the OS starts refusing during the call and
\* w.n how many bytes it takes before that (the text is ASCII: one byte per
\* character).
write_fmt(data, frags, w) ==
    LET text == Concat(frags)
    IN  IF w.fail /\ w.n < Len(text)
        THEN [ok |-> FALSE, data |-> data \o SubSeq(text, 1, w.n)]
        ELSE [ok |-> TRUE, data |-> data \o text]

ExportStr == <<"\n", "e", "x", "p", "o", "r", "t", " ">>

\* Variant of set_frags that quotes the value.
set_frags_quoted(var, value) ==
    <<ExportStr, Display(var), <<"=", "\"">>, Display(value), <<"\"", "\n">>>>

set_frags(var, value) ==
    <<ExportStr, Display(var), <<"=">>, Display(value), <<"\n">>>>

append_frags(var, value) ==
    <<ExportStr, Display(var), <<"=", "\"">>, Display(value), <<":", "$">>,
      Display(var), <<"\"", "\n">>>>

\* Common body of the unix set and append: get_profile()?, writeln!(..)?,
\* profile.flush() (a no-op on a File).
write_profile(frags, out, s) ==
    LET p == get_profile(s)
    IN  IF ~p.ok
        THEN [res |-> Err(p.kind, IF p.kind = "NoHome"
                 THEN <<"N", "o", " ", "h", "o", "m", "e", " ", "d", "i", "r",
                        "e", "c", "t", "o", "r", "y">>
                 ELSE <<>>),
              fs |-> s.fs, calls |-> s.calls, env |-> s.env]
        ELSE LET w == write_fmt(p.fs[p.file].data, frags, out.w)
             IN  [res |-> IF w.ok THEN Ok ELSE Err("Write", <<>>),
                  fs |-> [p.fs EXCEPT ![p.file].data = w.data],
                  calls |-> s.calls, env |-> s.env]

\* Variants of set_unix: one that skips the write when the file already ends
\* with the same line, one that also sets the variable in the process
\* environment (std::env::set_var).
set_unix_dedup(var, value, out, s) ==
    LET p == get_profile(s)
        line == Concat(set_frags(var, value))
        d == IF p.ok THEN p.fs[p.file].data ELSE <<>>
    IN  IF p.ok /\ Len(d) >= Len(line)
              /\ SubSeq(d, Len(d) - Len(line) + 1, Len(d)) = line
        THEN [res |-> Ok, fs |-> p.fs, calls |-> s.calls, env |-> s.env]
        ELSE write_profile(set_frags(var, value), out, s)

set_unix_setenv(var, value, out, s) ==
    LET r == write_profile(set_frags(var, value), out, s)
    IN  [r EXCEPT !.env = IF r.res.ok
                          THEN [s.env EXCEPT ![Display(var)] =
                                                 Unicode(Display(value))]
                          ELSE s.env]

set_unix(var, value, out, s) == write_profile(set_frags(var, value), out, s)

\* Variant of append_unix that expands the variable at write time.
append_unix_expanded(var, value, out, s) ==
    write_profile(<<ExportStr, Display(var), <<"=", "\"">>, Display(value),
                    <<":">>, s.env[Display(var)].text, <<"\"", "\n">>>>,
                  out, s)

append_unix(var, value, out, s) ==
    write_profile(append_frags(var, value), out, s)

(***************************** setx (windows) ******************************)
setx_message(out) ==
    (IF out.hasCode
     THEN <<"s", "e", "t", "x", " ", "e", "x", "i", "t", "t", "e", "d", " ",
            "w", "i", "t", "h", " ", "s", "t", "a", "t", "u", "s", " ", "c",
            "o", "d", "e", " ">> \o Display(IntV(out.code))
     ELSE <<"T", "h", "e", " ", "e", "x", "i", "t", " ", "c", "o", "d", "e",
            " ", "f", "o", "r", " ", "s", "e", "t", "x", " ", "c", "o", "u",
            "l", "d", " ", "n", "o", "t", " ", "b", "e", " ", "d", "e", "t",
            "e", "r", "m", "i", "n", "e", "d", ".">>)
    \o
    (IF out.utf8
     THEN <<"s", "e", "t", "x", " ", "w", "r", "o", "t", "e", " ", "t", "h",
            "e", " ", "f", "o", "l", "l", "o", "w", "i", "n", "g", " ", "t",
            "o", " ", "s", "t", "d", "e", "r", "r", ":", "\n">> \o out.stderr
     ELSE <<"s", "t", "d", "e", "r", "r", " ", "c", "o", "n", "t", "e", "n",
            "t", " ", "c", "a", "n", "n", "o", "t", " ", "b", "e", " ", "d",
            "i", "s", "p", "l", "a", "y", "e", "d", " ", "b", "e", "c", "a",
            "u", "s", "e", " ", "i", "s", " ", "n", "o", "t", " ", "u", "t",
            "f", "-", "8", ".">>)

\* Command::new("setx").arg(var).arg("\"value\"").output(): setx_calls
\* records the arguments of every setx process that was spawned.
set_windows(var, value, out, s) ==
    LET args == <<Display(var), <<"\"">> \o Display(value) \o <<"\"">>>>
    IN  IF ~out.spawn
        THEN [res |-> Err("Spawn", <<>>), fs |-> s.fs, calls |-> s.calls,
              env |-> s.env]
        ELSE [res |-> IF out.hasCode /\ out.code = 0
                      THEN Ok ELSE Err("Other", setx_message(out)),
              fs |-> s.fs, calls |-> Append(s.calls, args), env |-> s.env]

set(var, value, out, s) ==
    IF s.os = "unix" THEN set_unix(var, value, out, s)
    ELSE set_windows(var, value, out, s)

\* Variant of append_windows that takes a variable that is not present as
\* one whose value is empty.
append_windows_empty(var, value, out, s) ==
    LET cur == env_var(s.env, Display(var))
    IN  IF cur.ok \/ cur.err = "NotPresent"
        THEN set(var, StrV(Display(value) \o <<";", " ">> \o cur.val), out, s)
        ELSE [res |-> Err("Other", <<>>), fs |-> s.fs, calls |-> s.calls,
              env |-> s.env]

append_windows(var, value, out, s) ==
    LET cur == env_var(s.env, Display(var))
    IN  IF cur.ok
        THEN set(var, StrV(Display(value) \o <<";", " ">> \o cur.val), out, s)
        ELSE LET reason ==
                   IF cur.err = "NotPresent"
                   THEN <<"N", "o", "t", " ", "p", "r", "e", "s", "e", "n", "t">>
                   ELSE <<"N", "o", "n", " ", "u", "n", "i", "c", "o", "d", "e",
                          " ", "v", "a", "l", "u", "e", " ">> \o Debug(cur.val)
             IN  [res |-> Err("Other",
                      <<"C", "o", "u", "l", "d", " ", "n", "o", "t", " ", "e",
                        "n", "v", "i", "r", "o", "n", "m", "e", "n", "t", " ",
                        "v", "a", "r", "i", "a", "b", "l", "e", " ">>
                      \o Display(var)
                      \o <<".", " ", "R", "e", "a", "s", "o", "n", ":", " ">>
                      \o reason),
                  fs |-> s.fs, calls |-> s.calls, env |-> s.env]

append(var, value, out, s) ==
    IF s.os = "unix" THEN append_unix(var, value, out, s)
    ELSE append_windows(var, value, out, s)

\* Variant of check_or_set with the test inverted.
check_or_set_inverted(var, value, out, s) ==
    IF ~env_var(s.env, Display(var)).ok
    THEN [res |-> Ok, fs |-> s.fs, calls |-> s.calls, env |-> s.env]
    ELSE set(var, value, out, s)

check_or_set(var, value, out, s) ==
    IF env_var(s.env, Display(var)).ok
    THEN [res |-> Ok, fs |-> s.fs, calls |-> s.calls, env |-> s.env]
    ELSE set(var, value, out, s)

(***************************** inputs **************************************)
\* Values passed by the caller.
SetValues == {IntV(1), StrV(<<"b">>)}
AppendValues == {StrV(<<"b">>)}

\* What the operating system does during a call.  unix: whether a write
\* fails and after how many bytes (10: "\nexport FO" has reached the file,
\* the failure falls inside the name).  windows: whether setx could be
\* spawned, its exit code and its stderr.
NoFail == [fail |-> FALSE, n |-> 0]
FailAfter(n) == [fail |-> TRUE, n |-> n]
WriteOutcomes == {NoFail, FailAfter(10)}
UnixOutcomes ==
    {[w |-> w, spawn |-> TRUE, hasCode |-> TRUE, code |-> 0, utf8 |-> TRUE,
      stderr |-> <<>>] : w \in WriteOutcomes}
WindowsOutcomes ==
    {[w |-> NoFail, spawn |-> FALSE, hasCode |-> TRUE, code |-> 0,
      utf8 |-> TRUE, stderr |-> <<>>],
     [w |-> NoFail, spawn |-> TRUE, hasCode |-> TRUE, code |-> 0,
      utf8 |-> TRUE, stderr |-> <<>>],
     [w |-> NoFail, spawn |-> TRUE, hasCode |-> TRUE, code |-> 1,
      utf8 |-> TRUE, stderr |-> <<"E">>],
     [w |-> NoFail, spawn |-> TRUE, hasCode |-> TRUE, code |-> 1,
      utf8 |-> FALSE, stderr |-> <<>>]}
Outcomes(o) == IF o = "unix" THEN UnixOutcomes ELSE WindowsOutcomes

\* Environments of the calling process.
InitEnvs ==
    {[n \in Names |-> IF n = FOO THEN Absent ELSE Unicode(<<"p">>)],
     [n \in Names |-> IF n = FOO THEN Unicode(<<"v">>) ELSE Absent],
     [n \in Names |-> IF n = FOO THEN NotUnicode(<<"\\", "x", "F", "F">>)
                      ELSE Unicode(<<"p">>)]}

\* Content of a profile file that exists before the first call.
OldText == <<"#", "\n">>
InitFile(st) == [st |-> st, data |-> IF st = "absent" THEN <<>> ELSE OldText]

(***************************** state machine *******************************)
State == [os |-> os, home |-> home, fs |-> fs, env |-> env,
          calls |-> setx_calls]

Init ==
    /\ os \in {"unix", "windows"}
    /\ env \in InitEnvs
    /\ IF os = "unix"
       THEN /\ home \in {"none", "rw", "ro"}
            /\ \E st \in [Files -> {"absent", "file", "locked"}] :
                  fs = [f \in Files |-> InitFile(st[f])]
            /\ (home = "none" => \A f \in Files : fs[f].st # "locked")
       ELSE /\ home = "rw"
            /\ fs = [f \in Files |-> NoFile]
    /\ setx_calls = <<>>
    /\ hist = <<>>

\* One call of the library: r is what the called function returns and does.
Call(op, var, value, out, r) ==
    /\ Len(hist) < MaxCalls
    /\ fs' = r.fs
    /\ env' = r.env
    /\ setx_calls' = r.calls
    /\ hist' = Append(hist, [op |-> op, var |-> var, value |-> value,
                             out |-> out, res |-> r.res, pre |-> fs,
                             preCalls |-> setx_calls, post |-> r.fs,
                             postCalls |-> r.calls])
    /\ UNCHANGED <<os, home>>

CheckOrSet ==
    \E var \in Names, value \in SetValues, out \in Outcomes(os) :
        Call("check_or_set", var, value, out,
             check_or_set(StrV(var), value, out, State))

Set ==
    \E var \in Names, value \in SetValues, out \in Outcomes(os) :
        Call("set", var, value, out, set(StrV(var), value, out, State))

AppendVar ==
    \E var \in Names, value \in AppendValues, out \in Outcomes(os) :
        Call("append", var, value, out,
             append(StrV(var), value, out, State))

Next == CheckOrSet \/ Set \/ AppendVar

Spec == Init /\ [][Next]_vars

(***************************** properties **********************************)
Called == Len(hist) > 0
Last == hist[Len(hist)]
Calls == {hist[i] : i \in 1..Len(hist)}

\* The state a recorded call started from.
PreState(c) == [os |-> os, home |-> home, fs |-> c.pre, env |-> env,
                calls |-> c.preCalls]

\* Files whose state or content a call changed, and files it created.
Written(c) == {f \in Files : c.post[f] # c.pre[f]}
Created(c) == {f \in Files : c.pre[f].st = "absent" /\ c.post[f].st # "absent"}

\* Candidates that exist, and candidates whose open for append succeeds.
Existing(files) == {f \in Files : files[f].st # "absent"}
Openable(files) == {f \in Files : files[f].st = "file"}

\* The documented preference order and the first member of S in that order.
Chain == <<BashProfile, BashLogin, Profile>>
FirstIn(S) ==
    Chain[CHOOSE i \in 1..3 :
              Chain[i] \in S /\ \A j \in 1..(i - 1) : Chain[j] \notin S]

\* The text of the values the caller passes.
ValueText(v) ==
    CASE v = IntV(1) -> <<"1">>
      [] v = StrV(<<"b">>) -> <<"b">>

\* "\nexport NAME=VALUE\n"
ExportLine(name, text) ==
    <<"\n", "e", "x", "p", "o", "r", "t", " ">> \o name \o <<"=">> \o text
        \o <<"\n">>

\* "\nexport NAME=\"b:$NAME\"\n" for the appended value b.
AppendLineB(name) ==
    CASE name = FOO ->
            <<"\n", "e", "x", "p", "o", "r", "t", " ", "F", "O", "O", "=",
              "\"", "b", ":", "$", "F", "O", "O", "\"", "\n">>
      [] name = PATH ->
            <<"\n", "e", "x", "p", "o", "r", "t", " ", "P", "A", "T", "H", "=",
              "\"", "b", ":", "$", "P", "A", "T", "H", "\"", "\n">>

UnixWrite(c) == os = "unix" /\ c.op \in {"set", "append"}

\* C1: check_or_set on a variable that is present in the process
\* environment, whatever its value, returns success and writes nothing:
\* no profile file is created or modified and setx is not run.
C1_PresentNoWrite ==
    \A c \in Calls :
        (c.op = "check_or_set" /\ env[c.var].kind # "absent") =>
            /\ c.res.ok
            /\ c.post = c.pre
            /\ c.postCalls = c.preCalls

\* C2: check_or_set on a variable that is absent from the process
\* environment returns what set returns and has the effect set has from the
\* same starting state; on unix, when it succeeds, exactly one file gains
\* exactly the line "\nexport NAME=VALUE\n".
C2_AbsentEqualsSet ==
    \A c \in Calls :
        (c.op = "check_or_set" /\ env[c.var].kind = "absent") =>
            LET r == set(StrV(c.var), c.value, c.out, PreState(c))
            IN  /\ c.res = r.res
                /\ c.post = r.fs
                /\ c.postCalls = r.calls
                /\ (os = "unix" /\ c.res.ok) =>
                       \E f \in Files :
                           /\ Written(c) = {f}
                           /\ c.post[f].data = c.pre[f].data
                                  \o ExportLine(c.var, ValueText(c.value))

C2_Witness ==
    /\ Called /\ os = "unix"
    /\ Last.op = "check_or_set" /\ env[Last.var].kind = "absent"
    /\ Last.res.ok /\ Written(Last) # {}

\* C3 as stated: the file a successful unix set or append writes is the first
\* candidate that exists in the order .bash_profile, .bash_login, .profile,
\* and .bash_profile is created only when none of the three exists.
C3_FirstExisting ==
    \A c \in Calls :
        (UnixWrite(c) /\ c.res.ok) =>
            /\ Written(c) = {IF Existing(c.pre) # {}
                             THEN FirstIn(Existing(c.pre)) ELSE BashProfile}
            /\ Created(c) # {} => Existing(c.pre) = {}

\* C3 amended: the file a successful unix set or append writes is the first
\* candidate, in the order .bash_profile, .bash_login, .profile, whose open
\* for append succeeds; .bash_profile is created exactly when none of the
\* three can be opened, and no other file is ever created.
C3_FirstOpenable ==
    \A c \in Calls :
        (UnixWrite(c) /\ c.res.ok) =>
            /\ Written(c) = {IF Openable(c.pre) # {}
                             THEN FirstIn(Openable(c.pre)) ELSE BashProfile}
            /\ Created(c) # {} <=> Openable(c.pre) = {}
            /\ Created(c) \subseteq {BashProfile}

C3_Witness ==
    /\ Called /\ UnixWrite(Last) /\ Last.res.ok
    /\ Last.pre[BashProfile].st = "locked"
    /\ Last.pre[BashLogin].st = "file"
    /\ Last.pre[Profile].st = "file"
    /\ Written(Last) = {BashLogin}

\* C4: a successful unix set leaves the chosen file with its previous
\* content followed by exactly "\nexport NAME=VALUE\n" and leaves the other
\* files as they were; set("FOO", 1) in an empty home directory creates
\* .bash_profile containing exactly "\nexport FOO=1\n".
C4_SetAppendsLine ==
    \A c \in Calls :
        (os = "unix" /\ c.op = "set" /\ c.res.ok) =>
            /\ \E f \in Files :
                  /\ c.post[f].data = c.pre[f].data
                         \o ExportLine(c.var, ValueText(c.value))
                  /\ \A g \in Files \ {f} : c.post[g] = c.pre[g]
            /\ (c.var = FOO /\ c.value = IntV(1) /\ Existing(c.pre) = {}) =>
                  /\ c.post[BashProfile] =
                        [st |-> "file",
                         data |-> <<"\n", "e", "x", "p", "o", "r", "t", " ",
                                    "F", "O", "O", "=", "1", "\n">>]
                  /\ c.post[BashLogin] = NoFile
                  /\ c.post[Profile] = NoFile

C4_Witness ==
    /\ Called /\ os = "unix" /\ Last.op = "set" /\ Last.res.ok
    /\ Last.var = FOO /\ Last.value = IntV(1)
    /\ Existing(Last.pre) = {}
    /\ Last.post[BashProfile].st = "file"

\* C5: a successful unix append leaves exactly one file changed, with its
\* previous content followed by exactly "\nexport NAME=\"VALUE:$NAME\"\n",
\* $NAME being a dollar sign and the name: the same text whether the
\* variable is set in the process environment or not.
C5_AppendLine ==
    \A c \in Calls :
        (os = "unix" /\ c.op = "append" /\ c.res.ok) =>
            \E f \in Files :
                /\ Written(c) = {f}
                /\ c.post[f].data = c.pre[f].data \o AppendLineB(c.var)

C5_Witness ==
    /\ Called /\ os = "unix" /\ Last.op = "append" /\ Last.res.ok
    /\ env[Last.var].kind = "unicode"
    /\ \E f \in Files :
          Last.post[f].data = Last.pre[f].data \o AppendLineB(Last.var)

\* C6: two successful unix set calls in a row for the same name (equal
\* values included) leave both export lines in the file, in call order, the
\* second call leaving the first line as it was.
C6_TwoSetsTwoLines ==
    \A i \in 1..(Len(hist) - 1) :
        LET c1 == hist[i]
            c2 == hist[i + 1]
        IN  (os = "unix" /\ c1.op = "set" /\ c2.op = "set" /\ c1.res.ok
                 /\ c2.res.ok /\ c1.var = c2.var) =>
                \E f \in Files :
                    /\ c1.post[f].data = c1.pre[f].data
                           \o ExportLine(c1.var, ValueText(c1.value))
                    /\ c2.post[f].data = c1.pre[f].data
                           \o ExportLine(c1.var, ValueText(c1.value))
                           \o ExportLine(c2.var, ValueText(c2.value))

C6_Witness ==
    /\ Len(hist) >= 2 /\ os = "unix"
    /\ hist[1].op = "set" /\ hist[2].op = "set"
    /\ hist[1].res.ok /\ hist[2].res.ok
    /\ hist[1].var = hist[2].var /\ hist[1].value = hist[2].value
    /\ \E f \in Files : Len(fs[f].data) >=
           2 * Len(ExportLine(hist[1].var, ValueText(hist[1].value)))

\* C7 as stated: a unix set or append changes at most one file, and when at
\* least one candidate already exists no candidate is created.
C7_NoCreateWhenOneExists ==
    \A c \in Calls :
        UnixWrite(c) =>
            /\ Cardinality(Written(c)) <= 1
            /\ Existing(c.pre) # {} => Created(c) = {}

\* C7 amended: a unix set or append changes at most one file; when at least
\* one candidate can be opened for append, only the first such candidate is
\* changed and no candidate is created; with only .profile present and
\* openable, set("FOO", 1) appends "\nexport FOO=1\n" to .profile and
\* .bash_profile and .bash_login do not come into existence.
C7_AtMostOneFile ==
    \A c \in Calls :
        UnixWrite(c) =>
            /\ Cardinality(Written(c)) <= 1
            /\ Openable(c.pre) # {} =>
                  /\ Created(c) = {}
                  /\ Written(c) \subseteq {FirstIn(Openable(c.pre))}
            /\ (c.op = "set" /\ c.var = FOO /\ c.value = IntV(1) /\ c.res.ok
                    /\ Existing(c.pre) = {Profile}
                    /\ Openable(c.pre) = {Profile}) =>
                  /\ c.post[Profile].data = c.pre[Profile].data
                         \o <<"\n", "e", "x", "p", "o", "r", "t", " ", "F",
                              "O", "O", "=", "1", "\n">>
                  /\ c.post[BashProfile] = NoFile
                  /\ c.post[BashLogin] = NoFile

C7_Witness ==
    /\ Called /\ os = "unix" /\ Last.op = "set" /\ Last.res.ok
    /\ Last.var = FOO /\ Last.value = IntV(1)
    /\ Existing(Last.pre) = {Profile}
    /\ Written(Last) = {Profile}

\* C8 as stated: a windows append on a variable that is absent from the
\* process environment does what set does with the string "VALUE; " and
\* returns what that set returns.
C8_AbsentIsEmpty ==
    \A c \in Calls :
        (os = "windows" /\ c.op = "append" /\ env[c.var].kind = "absent") =>
            LET r == set(StrV(c.var),
                         StrV(ValueText(c.value) \o <<";", " ">>),
                         c.out, PreState(c))
            IN  c.res = r.res /\ c.postCalls = r.calls

\* C8 amended: a windows append on a variable that is absent from the
\* process environment fails with the error "Could not environment variable
\* NAME. Reason: Not present"; set is not called and setx is not run.
C8_AbsentFails ==
    \A c \in Calls :
        (os = "windows" /\ c.op = "append" /\ env[c.var].kind = "absent") =>
            /\ ~c.res.ok
            /\ c.res.kind = "Other"
            /\ c.res.msg =
                  <<"C", "o", "u", "l", "d", " ", "n", "o", "t", " ", "e", "n",
                    "v", "i", "r", "o", "n", "m", "e", "n", "t", " ", "v", "a",
                    "r", "i", "a", "b", "l", "e", " ">>
                  \o c.var
                  \o <<".", " ", "R", "e", "a", "s", "o", "n", ":", " ", "N",
                       "o", "t", " ", "p", "r", "e", "s", "e", "n", "t">>
            /\ c.postCalls = c.preCalls

C8_Witness ==
    /\ Called /\ os = "windows" /\ Last.op = "append"
    /\ env[Last.var].kind = "absent"
    /\ Last.out.spawn /\ Last.out.code = 0
    /\ ~Last.res.ok

\* The creating open of .bash_profile fails: the path exists and cannot be
\* opened, or it does not exist and cannot be created.
CreateOpenFails(files) ==
    \/ files[BashProfile].st = "locked"
    \/ files[BashProfile].st = "absent" /\ home # "rw"

LookupFailed(c) == ~c.res.ok /\ c.res.kind \in {"NoHome", "Open"}

\* C9: the profile lookup of a unix set or append fails only when the home
\* directory is not resolved or the creating open of .bash_profile fails;
\* it succeeds whenever the home directory is resolved and a candidate can
\* be opened or .bash_profile can be created; and when the home directory
\* is not resolved the call returns an error and no file is created or
\* written.
C9_LookupFailure ==
    \A c \in Calls :
        UnixWrite(c) =>
            /\ LookupFailed(c) => (home = "none" \/ CreateOpenFails(c.pre))
            /\ (home # "none"
                    /\ (Openable(c.pre) # {} \/ ~CreateOpenFails(c.pre))) =>
                  ~LookupFailed(c)
            /\ home = "none" =>
                  /\ ~c.res.ok
                  /\ c.res.kind = "NoHome"
                  /\ c.post = c.pre

C9_Witness ==
    /\ Called /\ UnixWrite(Last)
    /\ home = "rw"
    /\ Last.pre[BashProfile].st = "locked"
    /\ Last.pre[BashLogin].st = "absent"
    /\ LookupFailed(Last)
    /\ fs = Last.pre

\* The lines of the first n recorded calls, in call order.
RECURSIVE LinesUpTo(_)
LinesUpTo(n) ==
    IF n = 0 THEN <<>>
    ELSE LinesUpTo(n - 1)
             \o ExportLine(hist[n].var, ValueText(hist[n].value))

RepeatedCheckOrSet ==
    /\ Called /\ os = "unix"
    /\ \A i \in 1..Len(hist) :
          /\ hist[i].op = "check_or_set"
          /\ hist[i].res.ok
          /\ hist[i].var = hist[1].var

C10_NLines ==
    (RepeatedCheckOrSet /\ env[hist[1].var].kind = "absent") =>
        \E f \in Files :
            fs[f].data = hist[1].pre[f].data \o LinesUpTo(Len(hist))

\* C10: no call changes the process environment, so a variable that
\* check_or_set found absent and wrote a line for is still absent, and n
\* successful check_or_set calls on it in a row leave n export lines.
C10_EnvUnchanged ==
    /\ [][env' = env]_vars
    /\ []C10_NLines

C10_Witness ==
    /\ Len(hist) >= 2
    /\ RepeatedCheckOrSet
    /\ env[hist[1].var].kind = "absent"
    /\ hist[1].value = hist[2].value
    /\ \E f \in Files : fs[f].data = hist[1].pre[f].data \o LinesUpTo(2)

====
